---------------------------- MODULE Spec2Model ----------------------------
(***************************************************************************)
(* A model of blastcube: the sticker cube (cube/surface.rs), the location *)
(* enumeration (cube/facie.rs), the move algebra (move.rs), the evaluators *)
(* (challenge.rs, blast_machine_evaluator.rs) and the Kociemba solver      *)
(* (solver/kociemba.rs): its coordinates, its heuristic tables, and the    *)
(* worker that streams the solution.                                       *)
(*                                                                         *)
(* Indices are 1-based here and 0-based in the source: sticker i of a      *)
(* Surface in the source is sticker i + 1 below.  Durations are integer    *)
(* milliseconds.                                                           *)
(***************************************************************************)
EXTENDS Integers, Sequences, FiniteSets, TLC

(***************************************************************************)
(* cube/mod.rs : Face, Face::same_axis                                     *)
(***************************************************************************)
\* enum Face, in declaration order (the derived Ord is this order)
FaceSeq == <<"Front", "Back", "Left", "Right", "Up", "Down">>

Face == {FaceSeq[i] : i \in 1..6}

\* position of a face in the derived order
FaceOrd == [f \in Face |-> CHOOSE i \in 1..6 : FaceSeq[i] = f]

FaceLt(a, b) == FaceOrd[a] < FaceOrd[b]

\* same_axis with every pair of faces accepted
any_axis(a, b) == a \in Face /\ b \in Face

\* Face::same_axis
same_axis(a, b) ==
    \/ a = b
    \/ {a, b} = {"Front", "Back"}
    \/ {a, b} = {"Left", "Right"}
    \/ {a, b} = {"Up", "Down"}

\* impl From<Face> for Axis
AxisOf(f) ==
    CASE f \in {"Up", "Down"} -> "UD"
      [] f \in {"Front", "Back"} -> "FB"
      [] f \in {"Left", "Right"} -> "LR"

(***************************************************************************)
(* move.rs : Move, Direction                                               *)
(***************************************************************************)
\* enum Direction, in declaration order
DirectionSeq == <<"Single", "Double", "Reverse">>

Direction == {DirectionSeq[i] : i \in 1..3}

Move == [face : Face, direction : Direction]

Mv(f, d) == [face |-> f, direction |-> d]

\* Move::all : faces outermost, directions innermost
MoveAll == [k \in 1..18 |-> Mv(FaceSeq[((k - 1) \div 3) + 1], DirectionSeq[((k - 1) % 3) + 1])]

\* Direction::reverse
DirectionReverse(d) ==
    CASE d = "Single" -> "Reverse"
      [] d = "Reverse" -> "Single"
      [] d = "Double" -> "Double"

\* the move itself, in the place of its reverse
same_move(m) == m

\* Move::reverse
reverse(m) == Mv(m.face, DirectionReverse(m.direction))

\* could_follow with `>=` for `>`: a face may follow itself
could_follow_or_same(b, a) ==
    IF ~same_axis(b.face, a.face) THEN TRUE ELSE FaceOrd[b.face] >= FaceOrd[a.face]

\* Move::could_follow (self = b, other = a)
could_follow(b, a) ==
    IF ~same_axis(b.face, a.face) THEN TRUE ELSE FaceOrd[b.face] > FaceOrd[a.face]

\* should_consider without the could_follow test of its windows
should_consider_all(seq) == \A i \in 1..(Len(seq) - 1) : seq[i] \in Move

\* Move::should_consider
should_consider(seq) == \A i \in 1..(Len(seq) - 1) : could_follow(seq[i + 1], seq[i])

\* Move::inverse_seq
inverse_seq(seq) == [i \in 1..Len(seq) |-> reverse(seq[Len(seq) + 1 - i])]

\* the Err(..) of a failed parse, as a record so it compares with a Move
ParseErr == [face |-> "Err", direction |-> "Err"]

\* impl FromStr for Move : a token is a sequence of characters; the result
\* is a Move or ParseErr.  Characters after the second are not looked at.
from_str(s) ==
    IF Len(s) = 0 THEN ParseErr
    ELSE LET face == CASE s[1] \in {"F", "f"} -> "Front"
                       [] s[1] \in {"R", "r"} -> "Right"
                       [] s[1] \in {"U", "u"} -> "Up"
                       [] s[1] \in {"L", "l"} -> "Left"
                       [] s[1] \in {"B", "b"} -> "Back"
                       [] s[1] \in {"D", "d"} -> "Down"
                       [] OTHER -> "Err"
             direction == IF Len(s) = 1 THEN "Single"
                          ELSE CASE s[2] = "'" -> "Reverse"
                                 [] s[2] = "2" -> "Double"
                                 [] OTHER -> "Err"
         IN  IF face = "Err" \/ direction = "Err" THEN ParseErr ELSE Mv(face, direction)

\* impl Display for Face, as a sequence of characters
face_fmt(f) ==
    CASE f = "Up" -> <<"U">>
      [] f = "Down" -> <<"D">>
      [] f = "Front" -> <<"F">>
      [] f = "Back" -> <<"B">>
      [] f = "Left" -> <<"L">>
      [] f = "Right" -> <<"R">>

\* Display for Direction with the strings of Reverse and Double exchanged
direction_fmt_exchanged(d) ==
    CASE d = "Single" -> <<>>
      [] d = "Reverse" -> <<"2">>
      [] d = "Double" -> <<"'">>

\* impl Display for Direction
direction_fmt(d) ==
    CASE d = "Single" -> <<>>
      [] d = "Reverse" -> <<"'">>
      [] d = "Double" -> <<"2">>

\* impl Display for Move : write!(f, "{}{}", self.face, self.direction)
move_fmt(m) == face_fmt(m.face) \o direction_fmt(m.direction)

\* the valid tokens: an upper-case face letter, then nothing, ' or 2
ValidTokens ==
    {<<l>> \o d : l \in {"U", "D", "F", "B", "L", "R"}, d \in {<<>>, <<"'">>, <<"2">>}}

\* Move::parse_sequence, on the tokens that split(" ") gives; one failed
\* token makes the whole result the error, <<ParseErr>>
parse_sequence(tokens) ==
    IF \E i \in 1..Len(tokens) : from_str(tokens[i]) = ParseErr THEN <<ParseErr>>
    ELSE [i \in 1..Len(tokens) |-> from_str(tokens[i])]

(***************************************************************************)
(* cube/surface.rs : Cube, Surface, SliceMut                               *)
(***************************************************************************)
\* Cube::solved
SolvedCube == [f \in Face |-> [i \in 1..8 |-> f]]

\* Surface::rotate : the eight bytes transmuted to a u64, rotate_left(16).
\* The byte order is the target's; the tests rotate_surface,
\* rotate_surface_reverse and rotate_surface_double of surface.rs state the
\* little-endian outcome, new[i] = old[i - 2], which is the one modelled.
surface_rotate(s) == [i \in 1..8 |-> s[((i + 5) % 8) + 1]]

\* Surface::rotate_reverse : rotate_right(16); new[i] = old[i + 2]
surface_rotate_reverse(s) == [i \in 1..8 |-> s[((i + 1) % 8) + 1]]

\* Surface::rotate_double : rotate_right(32); new[i] = old[i + 4]
surface_rotate_double(s) == [i \in 1..8 |-> s[((i + 3) % 8) + 1]]

\* Surface::top_mut, bottom_mut, right_mut, left_mut
top_mut == <<1, 2, 3>>

bottom_mut == <<5, 6, 7>>

right_mut == <<3, 4, 5>>

left_mut == <<7, 8, 1>>

Sl(f, ix) == [surface |-> f, indices |-> ix]

\* Cube::slices
slices(face) ==
    CASE face = "Up" -> <<Sl("Left", top_mut), Sl("Back", top_mut), Sl("Right", top_mut), Sl("Front", top_mut)>>
      [] face = "Down" -> <<Sl("Left", bottom_mut), Sl("Front", bottom_mut), Sl("Right", bottom_mut), Sl("Back", bottom_mut)>>
      [] face = "Front" -> <<Sl("Up", bottom_mut), Sl("Right", left_mut), Sl("Down", top_mut), Sl("Left", right_mut)>>
      [] face = "Back" -> <<Sl("Up", top_mut), Sl("Left", left_mut), Sl("Down", bottom_mut), Sl("Right", right_mut)>>
      [] face = "Right" -> <<Sl("Up", right_mut), Sl("Back", left_mut), Sl("Down", right_mut), Sl("Front", right_mut)>>
      [] face = "Left" -> <<Sl("Up", left_mut), Sl("Front", left_mut), Sl("Down", left_mut), Sl("Back", right_mut)>>

\* the slice that slice j is set from, per direction, in Cube::rotate:
\*   Single : s0 <- s1, s1 <- s2, s2 <- s3, s3 <- first (old s0)
\*   Reverse: s3 <- s2, s2 <- s1, s1 <- s0, s0 <- last (old s3)
\*   Double : s0 <-> s2, s1 <-> s3
SliceSource(direction, j) ==
    CASE direction = "Single" -> (j % 4) + 1
      [] direction = "Reverse" -> ((j + 2) % 4) + 1
      [] direction = "Double" -> ((j + 1) % 4) + 1

\* Cube::rotate : the face's own surface first, then the four slices around
\* it (they lie on four different surfaces, none of them the turned one)
rotate(cube, move_) ==
    LET s == cube[move_.face]
        turned == CASE move_.direction = "Single" -> surface_rotate(s)
                    [] move_.direction = "Reverse" -> surface_rotate_reverse(s)
                    [] move_.direction = "Double" -> surface_rotate_double(s)
        c1 == [cube EXCEPT ![move_.face] = turned]
        sl == slices(move_.face)
        owned(j) == [k \in 1..3 |-> c1[sl[j].surface][sl[j].indices[k]]]
        set(j) == LET from == owned(SliceSource(move_.direction, j))
                      ix == sl[j].indices
                  IN  [i \in 1..8 |->
                         IF \E k \in 1..3 : ix[k] = i
                         THEN from[CHOOSE k \in 1..3 : ix[k] = i]
                         ELSE c1[sl[j].surface][i]]
    IN  [f \in Face |->
           IF \E j \in 1..4 : sl[j].surface = f
           THEN set(CHOOSE j \in 1..4 : sl[j].surface = f)
           ELSE c1[f]]

\* CubeLike::apply
apply(cube, move_) == rotate(cube, move_)

\* CubeLike::apply_all
RECURSIVE apply_all(_, _)
apply_all(cube, moves) ==
    IF moves = <<>> THEN cube ELSE apply_all(apply(cube, Head(moves)), Tail(moves))

(***************************************************************************)
(* cube/facie.rs : Location, Location::all                                 *)
(***************************************************************************)
Center(f) == <<"Center", f>>

Edge(a, b) == <<"Edge", a, b>>

Corner(a, b, c) == <<"Corner", a, b, c>>

\* the closure `edges` of Location::all : pairs (a, b), a < b, on two axes
EdgePairs ==
    SelectSeq([k \in 1..36 |-> <<FaceSeq[((k - 1) \div 6) + 1], FaceSeq[((k - 1) % 6) + 1]>>],
              LAMBDA p : ~same_axis(p[1], p[2]) /\ FaceLt(p[1], p[2]))

\* the closure `corners` without its filter `b < *c`
CornerTriplesUnfiltered ==
    SelectSeq([k \in 1..(Len(EdgePairs) * 6) |->
                 <<EdgePairs[((k - 1) \div 6) + 1][1], EdgePairs[((k - 1) \div 6) + 1][2],
                   FaceSeq[((k - 1) % 6) + 1]>>],
              LAMBDA t : ~same_axis(t[1], t[3]) /\ ~same_axis(t[2], t[3]))

\* the closure `corners` of Location::all : triples (a, b, c), b < c, c on
\* the third axis
CornerTriples ==
    SelectSeq([k \in 1..(Len(EdgePairs) * 6) |->
                 <<EdgePairs[((k - 1) \div 6) + 1][1], EdgePairs[((k - 1) \div 6) + 1][2],
                   FaceSeq[((k - 1) % 6) + 1]>>],
              LAMBDA t : FaceLt(t[2], t[3]) /\ ~same_axis(t[1], t[3]) /\ ~same_axis(t[2], t[3]))

\* Location::all : centres, then each edge's two stickers, then each
\* corner's three stickers
LocationAll ==
    [k \in 1..6 |-> Center(FaceSeq[k])]
    \o [k \in 1..(2 * Len(EdgePairs)) |->
          LET p == EdgePairs[((k - 1) \div 2) + 1]
          IN  IF k % 2 = 1 THEN Edge(p[1], p[2]) ELSE Edge(p[2], p[1])]
    \o [k \in 1..(3 * Len(CornerTriples)) |->
          LET t == CornerTriples[((k - 1) \div 3) + 1]
          IN  CASE k % 3 = 1 -> Corner(t[1], t[2], t[3])
                [] k % 3 = 2 -> Corner(t[2], t[1], t[3])
                [] k % 3 = 0 -> Corner(t[3], t[1], t[2])]

\* the edge arm of Cube::get : the sticker index on surface s of the edge
\* shared with `against` (arms in source order, 1-based result)
EdgeIndex(s, against) ==
    CASE against = "Up" -> 2
      [] against = "Down" -> 6
      [] s = "Front" /\ against = "Left" -> 8
      [] s = "Front" /\ against = "Right" -> 4
      [] s = "Back" /\ against = "Left" -> 4
      [] s = "Back" /\ against = "Right" -> 8
      [] s = "Left" /\ against = "Front" -> 4
      [] s = "Left" /\ against = "Back" -> 8
      [] s = "Right" /\ against = "Front" -> 8
      [] s = "Right" /\ against = "Back" -> 4
      [] s \in {"Up", "Down"} /\ against = "Left" -> 8
      [] s \in {"Up", "Down"} /\ against = "Right" -> 4
      [] s = "Up" /\ against = "Front" -> 6
      [] s = "Up" /\ against = "Back" -> 2
      [] s = "Down" /\ against = "Front" -> 2
      [] s = "Down" /\ against = "Back" -> 6

\* the corner arm of Cube::get (1-based result)
CornerIndex(s, e, p) ==
    CASE s = "Front" /\ e = "Left" /\ p = "Up" -> 1
      [] s = "Front" /\ e = "Left" /\ p = "Down" -> 7
      [] s = "Front" /\ e = "Right" /\ p = "Up" -> 3
      [] s = "Front" /\ e = "Right" /\ p = "Down" -> 5
      [] s = "Back" /\ e = "Left" /\ p = "Up" -> 3
      [] s = "Back" /\ e = "Left" /\ p = "Down" -> 5
      [] s = "Back" /\ e = "Right" /\ p = "Up" -> 1
      [] s = "Back" /\ e = "Right" /\ p = "Down" -> 7
      [] s = "Left" /\ e = "Front" /\ p = "Up" -> 3
      [] s = "Left" /\ e = "Front" /\ p = "Down" -> 5
      [] s = "Left" /\ e = "Back" /\ p = "Up" -> 1
      [] s = "Left" /\ e = "Back" /\ p = "Down" -> 7
      [] s = "Right" /\ e = "Front" /\ p = "Up" -> 1
      [] s = "Right" /\ e = "Front" /\ p = "Down" -> 7
      [] s = "Right" /\ e = "Back" /\ p = "Up" -> 3
      [] s = "Right" /\ e = "Back" /\ p = "Down" -> 5
      [] s = "Up" /\ e = "Front" /\ p = "Left" -> 7
      [] s = "Up" /\ e = "Front" /\ p = "Right" -> 5
      [] s = "Up" /\ e = "Back" /\ p = "Left" -> 1
      [] s = "Up" /\ e = "Back" /\ p = "Right" -> 3
      [] s = "Down" /\ e = "Front" /\ p = "Left" -> 1
      [] s = "Down" /\ e = "Front" /\ p = "Right" -> 3
      [] s = "Down" /\ e = "Back" /\ p = "Left" -> 7
      [] s = "Down" /\ e = "Back" /\ p = "Right" -> 5

\* Cube::get
get(cube, location) ==
    CASE location[1] = "Center" -> location[2]
      [] location[1] = "Edge" -> cube[location[2]][EdgeIndex(location[2], location[3])]
      [] location[1] = "Corner" -> cube[location[2]][CornerIndex(location[2], location[3], location[4])]

(***************************************************************************)
(* solver/kociemba.rs : coordinates and domino predicates                  *)
(***************************************************************************)
\* the value a coordinate function has when its assert_eq! on `count` fails
\* (the call panics and returns nothing)
PANIC == -1

BRD == {"Back", "Right", "Down"}

\* the fold of corner_orientation over Location::all()[k..]; <<v, count>>
RECURSIVE CornerFold(_, _, _, _)
CornerFold(cube, k, v, count) ==
    IF k > Len(LocationAll) THEN <<v, count>>
    ELSE LET loc == LocationAll[k]
         IN  IF loc[1] # "Corner" THEN CornerFold(cube, k + 1, v, count)
             ELSE IF loc[2] \in BRD /\ loc[3] \in BRD /\ loc[4] \in BRD
                  THEN CornerFold(cube, k + 1, v, count)
             ELSE IF get(cube, loc) \notin {"Up", "Down"}
                  THEN CornerFold(cube, k + 1, v, count)
             ELSE LET value == CASE loc[2] \in {"Up", "Down"} -> 0
                                 [] loc[2] \in {"Front", "Back"} -> 1
                                 [] loc[2] \in {"Left", "Right"} -> 2
                  IN  CornerFold(cube, k + 1, v * 3 + value, count + 1)

\* corner_orientation, with assert_eq!(count, 7)
corner_orientation(cube) ==
    LET r == CornerFold(cube, 1, 0, 0)
    IN  IF r[2] = 7 THEN r[1] ELSE PANIC

\* the second filter_map of edge_orientation: "none", or the boolean v
EdgeGood(cube, major, minor) ==
    LET this_face == AxisOf(get(cube, Edge(major, minor)))
        other_face == AxisOf(get(cube, Edge(minor, major)))
        ma == AxisOf(major)
        mi == AxisOf(minor)
    IN  CASE other_face = "UD" -> "none"
          [] other_face # "UD" /\ this_face = "UD" ->
                IF ma = "UD" THEN "true"
                ELSE IF ma = "FB" /\ mi = "LR" THEN "true"
                ELSE "false"
          [] other_face = "FB" /\ this_face # "UD" -> "none"
          [] other_face = "LR" /\ this_face = "FB" ->
                IF ma = "UD" THEN "true"
                ELSE IF ma = "FB" /\ mi = "LR" THEN "true"
                ELSE "false"
          [] other_face = "LR" /\ this_face = "LR" -> "none"

\* the fold of edge_orientation over Location::all()[k..]; <<v, count>>
RECURSIVE EdgeFold(_, _, _, _)
EdgeFold(cube, k, v, count) ==
    IF k > Len(LocationAll) THEN <<v, count>>
    ELSE LET loc == LocationAll[k]
         IN  IF loc[1] # "Edge" THEN EdgeFold(cube, k + 1, v, count)
             ELSE IF loc[2] \in {"Back", "Right"} /\ loc[3] \in {"Back", "Right"}
                  THEN EdgeFold(cube, k + 1, v, count)
             ELSE LET g == EdgeGood(cube, loc[2], loc[3])
                  IN  IF g = "none" THEN EdgeFold(cube, k + 1, v, count)
                      ELSE EdgeFold(cube, k + 1, v * 2 + (IF g = "true" THEN 0 ELSE 1), count + 1)

\* edge_orientation, with assert_eq!(count, 11)
edge_orientation(cube) ==
    LET r == EdgeFold(cube, 1, 0, 0)
    IN  IF r[2] = 11 THEN r[1] ELSE PANIC

(***************************************************************************)
(* cube/coord.rs : corner_position, edge_position                          *)
(* (corner_orientation and edge_orientation of coord.rs are, but for the   *)
(* u16 result type, the text of the functions of kociemba.rs above)        *)
(***************************************************************************)
\* faces.sort() : Face's derived Ord, by insertion
RECURSIVE InsertFace(_, _)
InsertFace(f, s) ==
    IF s = <<>> THEN <<f>>
    ELSE IF FaceOrd[f] <= FaceOrd[Head(s)] THEN <<f>> \o s
    ELSE <<Head(s)>> \o InsertFace(f, Tail(s))

RECURSIVE sort(_)
sort(faces) == IF faces = <<>> THEN <<>> ELSE InsertFace(Head(faces), sort(Tail(faces)))

\* the match on the sorted corner cubie; PANIC for the unreachable!() arm
CornerCubieId(cubie) ==
    CASE cubie = <<"Front", "Left", "Up">> -> 0
      [] cubie = <<"Front", "Left", "Down">> -> 1
      [] cubie = <<"Front", "Right", "Up">> -> 2
      [] cubie = <<"Front", "Right", "Down">> -> 3
      [] cubie = <<"Back", "Left", "Up">> -> 4
      [] cubie = <<"Back", "Left", "Down">> -> 5
      [] cubie = <<"Back", "Right", "Up">> -> 6
      [] cubie = <<"Back", "Right", "Down">> -> 7
      [] OTHER -> PANIC

\* the match on the sorted edge cubie; PANIC for the unreachable!() arm
EdgeCubieId(cubie) ==
    CASE cubie = <<"Front", "Left">> -> 0
      [] cubie = <<"Front", "Right">> -> 1
      [] cubie = <<"Front", "Up">> -> 2
      [] cubie = <<"Front", "Down">> -> 3
      [] cubie = <<"Back", "Left">> -> 4
      [] cubie = <<"Back", "Right">> -> 5
      [] cubie = <<"Back", "Up">> -> 6
      [] cubie = <<"Back", "Down">> -> 7
      [] cubie = <<"Left", "Up">> -> 8
      [] cubie = <<"Left", "Down">> -> 9
      [] cubie = <<"Right", "Up">> -> 10
      [] cubie = <<"Right", "Down">> -> 11
      [] OTHER -> PANIC

\* ordered_cubes of corner_position: the cubie ids in the order of the
\* locations Corner(major, minor, perp) with major < minor < perp
CornerCubes(cube) ==
    LET locs == SelectSeq(LocationAll,
                    LAMBDA loc : /\ loc[1] = "Corner"
                                 /\ FaceLt(loc[2], loc[3])
                                 /\ FaceLt(loc[3], loc[4]))
    IN  [k \in 1..Len(locs) |->
           CornerCubieId(sort(<<get(cube, Corner(locs[k][2], locs[k][3], locs[k][4])),
                                get(cube, Corner(locs[k][3], locs[k][2], locs[k][4])),
                                get(cube, Corner(locs[k][4], locs[k][2], locs[k][3]))>>))]

\* ordered_cubes of edge_position: the cubie ids in the order of the
\* locations Edge(major, minor) with major < minor
EdgeCubes(cube) ==
    LET locs == SelectSeq(LocationAll,
                    LAMBDA loc : loc[1] = "Edge" /\ FaceLt(loc[2], loc[3]))
    IN  [k \in 1..Len(locs) |->
           EdgeCubieId(sort(<<get(cube, Edge(locs[k][2], locs[k][3])),
                              get(cube, Edge(locs[k][3], locs[k][2]))>>))]

RECURSIVE factorial(_)
factorial(n) == IF n <= 1 THEN 1 ELSE n * factorial(n - 1)

\* the ids before the cubie at 0-based index i that are smaller: the count
\* with the comparison of bad_cubies_before inverted
good_cubies_before(ordered_cubes, i) ==
    Cardinality({k \in 1..i : ordered_cubes[k] < ordered_cubes[i + 1]})

\* the count of bad_cubies_before for the cubie at 0-based index i: the ids
\* before it that are greater
bad_cubies_before(ordered_cubes, i) ==
    Cardinality({k \in 1..i : ordered_cubes[k] > ordered_cubes[i + 1]})

\* the fold v + factorial(i + 1) * count over the cubies from 0-based index
\* i on (skip(1), then enumerate from 0)
RECURSIVE PositionFold(_, _, _)
PositionFold(ordered_cubes, i, v) ==
    IF i >= Len(ordered_cubes) THEN v
    ELSE PositionFold(ordered_cubes, i + 1,
                      v + factorial(i) * bad_cubies_before(ordered_cubes, i))

\* corner_position, the usize fold cast `as u16`
corner_position(cube) ==
    CHOOSE r \in { IF \E k \in 1..Len(ids) : ids[k] = PANIC THEN PANIC
                   ELSE PositionFold(ids, 1, 0) % 65536 :
                     ids \in {CornerCubes(cube)} } : TRUE

\* edge_position, the usize fold cast `as u32`: the fold is at most
\* 12! - 1 < 2^31, which the cast leaves as it is
edge_position(cube) ==
    CHOOSE r \in { IF \E k \in 1..Len(ids) : ids[k] = PANIC THEN PANIC
                   ELSE PositionFold(ids, 1, 0) :
                     ids \in {EdgeCubes(cube)} } : TRUE

\* the four coordinate functions, in the order TransitionTable::init hands
\* them to populate_with
CoordNames == <<"corner_orientation", "edge_orientation", "corner_position", "edge_position">>

\* f(&cube) of populate_with, for the coordinate function f of that name
CoordFn(n, c) ==
    CASE n = "corner_orientation" -> corner_orientation(c)
      [] n = "edge_orientation" -> edge_orientation(c)
      [] n = "corner_position" -> corner_position(c)
      [] n = "edge_position" -> edge_position(c)

\* a mutation of is_domino_move: every move is accepted
is_domino_move_any(m) == m \in Move

\* is_domino_move
is_domino_move(m) ==
    CASE m.face \in {"Up", "Down"} -> TRUE
      [] m.face \notin {"Up", "Down"} /\ m.direction = "Double" -> TRUE
      [] OTHER -> FALSE

\* domino_moves
domino_moves == SelectSeq(MoveAll, is_domino_move)

\* one arm sequence of the match in is_domino_cube, for location l showing g;
\* the arms are tried in source order
DominoArm(l, g) ==
    CASE l[1] = "Center" -> TRUE
      [] l[1] = "Edge" /\ l[2] \in {"Up", "Down"} /\ g \in {"Up", "Down"} -> TRUE
      [] l[1] = "Corner" /\ l[2] \in {"Up", "Down"} /\ g \in {"Up", "Down"} -> TRUE
      [] l[1] = "Edge" /\ l[2] \in {"Front", "Back"} /\ l[3] \in {"Left", "Right"}
            /\ g \in {"Front", "Back"} -> TRUE
      [] l[1] = "Edge" /\ l[2] \in {"Front", "Back"} -> TRUE
      [] l[1] = "Edge" /\ l[2] \in {"Left", "Right"} -> TRUE
      [] l[1] = "Corner" /\ l[2] \in {"Front", "Back", "Left", "Right"} -> TRUE
      [] OTHER -> FALSE

\* is_domino_cube
is_domino_cube(cube) ==
    \A k \in 1..Len(LocationAll) : DominoArm(LocationAll[k], get(cube, LocationAll[k]))

(***************************************************************************)
(* challenge.rs, blast_machine_evaluator.rs : evaluators                   *)
(***************************************************************************)
single_move_time == 10

double_move_time == 14

\* the cost BlastMachineEvaluator::eval gives move k of seq
BlastMoveCost(seq, k) ==
    IF k > 1 /\ same_axis(seq[k - 1].face, seq[k].face) THEN 0
    ELSE IF seq[k].direction = "Double" THEN double_move_time
    ELSE single_move_time

RECURSIVE BlastSum(_, _)
BlastSum(seq, k) == IF k = 0 THEN 0 ELSE BlastSum(seq, k - 1) + BlastMoveCost(seq, k)

\* BlastMachineEvaluator::eval
blast_eval(seq) == BlastSum(seq, Len(seq))

\* BlastMachineEvaluator::min_time
blast_min_time(seq) ==
    IF Len(seq) <= 1 THEN 0 ELSE blast_eval(SubSeq(seq, 2, Len(seq) - 1))

\* tests::heuristic_table::simple_evaluator
simple_evaluator(seq) == 10 * Len(seq)

Evaluators == {"blast", "uniform"}

\* Evaluator::eval : BlastMachineEvaluator, or the closure impl
eval(e, seq) == IF e = "blast" THEN blast_eval(seq) ELSE simple_evaluator(seq)

\* Evaluator::min_time : BlastMachineEvaluator, or the closure impl (which
\* calls the closure itself)
min_time(e, seq) == IF e = "blast" THEN blast_min_time(seq) ELSE simple_evaluator(seq)

(***************************************************************************)
(* State                                                                   *)
(***************************************************************************)
VARIABLES
    cube,        \* the Cube at hand: a scrambled cube, then moves applied to it
    nmoves,      \* how many moves were applied to `cube` since the scramble
    last,        \* the last move applied to `cube`, or "none"
    seq,         \* a move sequence: the one handed to an Evaluator, or the moves applied to `cube`
    evaluator,   \* challenge.evaluator: "blast" or "uniform"
    simplifier,  \* HeuristicTable.simplifier: the coordinate of the table being built
    pending,     \* the tables Kociemba::init builds after this one
    depth,       \* HeuristicTable::init: the loop variable of `for depth in 0..21`
    move_stack,  \* expand_to_depth: the move stack of the call at hand
    map,         \* HeuristicTable.map: coordinate value -> Duration (ms)
    anys,        \* expand_to_depth: the fold accumulator `any` of every open call
    ret,         \* expand_to_depth: what the call that just returned gave
    status,      \* where the table build stands
    heuristics,  \* Phase.heuristics of to_domino: the tables built so far
    to_domino,   \* solve's worker: the result of solve_to(cube, to_domino, [])
    solution,    \* solve's worker: the result of solve_to(cube, post_domino, to_domino)
    wpc,         \* solve's worker: where it stands
    ix,          \* solve's worker: how many moves of the vector at hand its for loop has sent
    chan,        \* the mpsc channel: moves sent and not yet received
    moves,       \* main: the moves received from the iterator so far
    result_cube, \* main: the scrambled cube with the received moves applied
    mpc,         \* main: where it stands
    phase,       \* solve_to: the Phase it searches in
    best_time,   \* solve_to: the bound of the pass at hand (ms)
    search,      \* solve_to: the Search the last find_solution call returned
    spc,         \* solve_to: where it stands
    table_name,  \* populate_with: its `name`, which names the coordinate function f
    to_expand,   \* populate_with: coordinate value -> the cube kept for it
    transitions, \* SingleTable.0: <<move, from>> -> to
    from_v,      \* populate_with: the coordinate value popped from to_expand
    from,        \* populate_with: the cube popped from to_expand
    m_ix,        \* populate_with: the index in Move::all() of the loop's m
    tpc          \* populate_with: where it stands

cubeVars == <<cube, nmoves, last>>

tableVars ==
    <<evaluator, simplifier, pending, depth, move_stack, map, anys, ret, status, heuristics>>

streamVars == <<to_domino, solution, wpc, ix, chan, moves, result_cube, mpc>>

searchVars == <<phase, best_time, search, spc>>

transVars == <<table_name, to_expand, transitions, from_v, from, m_ix, tpc>>

vars == <<cube, nmoves, last, seq, evaluator, simplifier, pending, depth, move_stack,
          map, anys, ret, status, heuristics, to_domino, solution, wpc, ix, chan, moves,
          result_cube, mpc, phase, best_time, search, spc, table_name, to_expand,
          transitions,
          from_v, from, m_ix, tpc>>

\* HashMap::default()
EmptyMap == [v \in {} |-> 0]

\* no table is being built
NoTable ==
    /\ evaluator = "blast"
    /\ simplifier = "none"
    /\ pending = <<>>
    /\ depth = 0
    /\ move_stack = <<>>
    /\ map = EmptyMap
    /\ anys = <<>>
    /\ ret = FALSE
    /\ status = "idle"
    /\ heuristics = <<>>

\* solve_to has not been called
NoSearch ==
    /\ phase = "none"
    /\ best_time = 0
    /\ search = "none"
    /\ spc = "idle"

\* populate_with has not been called
NoTransition ==
    /\ table_name = "none"
    /\ to_expand = EmptyMap
    /\ transitions = EmptyMap
    /\ from_v = 0
    /\ from = SolvedCube
    /\ m_ix = 0
    /\ tpc = "idle"

\* solve has not been called
NoStream ==
    /\ to_domino = <<>>
    /\ solution = <<>>
    /\ wpc = "idle"
    /\ ix = 0
    /\ chan = <<>>
    /\ moves = <<>>
    /\ result_cube = cube
    /\ mpc = "idle"

(***************************************************************************)
(* Scrambles.  main.rs builds the cube from a scramble string; any move    *)
(* sequence applied to Cube::solved() is a cube the program can hold.      *)
(***************************************************************************)
\* main.rs, scrambles[1]: "R2 U' L2 R2 L' B"
SmallScramble ==
    parse_sequence(<< <<"R", "2">>, <<"U", "'">>, <<"L", "2">>, <<"R", "2">>, <<"L", "'">>, <<"B">> >>)

\* "L F2 L2 U D F' L2 F D' U' L2 F2 L'"
FlipScramble ==
    parse_sequence(<< <<"L">>, <<"F", "2">>, <<"L", "2">>, <<"U">>, <<"D">>, <<"F", "'">>,
                      <<"L", "2">>, <<"F">>, <<"D", "'">>, <<"U", "'">>, <<"L", "2">>,
                      <<"F", "2">>, <<"L", "'">> >>)

\* "U L F2 B2 R"
OrientedScramble ==
    parse_sequence(<< <<"U">>, <<"L">>, <<"F", "2">>, <<"B", "2">>, <<"R">> >>)

\* "F", the scramble of the single-turn scenario
SingleScramble == parse_sequence(<< <<"F">> >>)

\* "U R2 D' F2 L2", a scramble of domino moves
DominoScramble ==
    parse_sequence(<< <<"U">>, <<"R", "2">>, <<"D", "'">>, <<"F", "2">>, <<"L", "2">> >>)

Scrambles ==
    {<<>>, SingleScramble, SmallScramble, FlipScramble, OrientedScramble, DominoScramble}

\* how many further moves are applied to a scrambled cube
MaxMoves == 2

\* how long the sequences handed to an evaluator get
MaxSeqLen == 3

\* the bound on best_time (ms) above which solve_to starts no further pass
MaxBestTime == 30

(***************************************************************************)
(* The cube under moves: CubeLike::apply on a scrambled cube               *)
(***************************************************************************)
InitCube ==
    /\ \E s \in Scrambles : cube = apply_all(SolvedCube, s)
    /\ nmoves = 0
    /\ last = "none"
    /\ seq = <<>>
    /\ NoTable
    /\ NoStream
    /\ NoSearch
    /\ NoTransition

\* cube = cube.apply(m)
Apply(m) ==
    /\ nmoves < MaxMoves
    /\ cube' = apply(cube, m)
    /\ nmoves' = nmoves + 1
    /\ last' = m
    /\ seq' = Append(seq, m)
    /\ result_cube' = cube'
    /\ UNCHANGED <<searchVars, transVars, tableVars, to_domino, solution, wpc, ix, chan, moves, mpc>>

NextCube == \E k \in 1..18 : Apply(MoveAll[k])

Spec == InitCube /\ [][NextCube]_vars

(***************************************************************************)
(* Claims about the cube under moves (specification Spec)                  *)
(***************************************************************************)
\* the four middle-layer positions hold the four UD-slice edges: neither
\* sticker of an edge between Front/Back and Left/Right shows Up or Down
SliceEdgesInSlice ==
    \A a \in {"Front", "Back"} : \A b \in {"Left", "Right"} :
        /\ get(cube, Edge(a, b)) \notin {"Up", "Down"}
        /\ get(cube, Edge(b, a)) \notin {"Up", "Down"}

\* C4: is_domino_cube(cube) is true exactly when the corner orientation
\* coordinate is 0, the edge orientation coordinate is 0, and the four
\* UD-slice edges are in the middle layer.
C4_DominoIffCoordinates ==
    is_domino_cube(cube) <=>
        /\ corner_orientation(cube) = 0
        /\ edge_orientation(cube) = 0
        /\ SliceEdgesInSlice

\* C10: from a cube whose corner orientation and edge orientation
\* coordinates are both 0, applying a domino move (U, U', U2, D, D', D2, F2,
\* B2, L2, R2) leaves both coordinates 0.
C10_DominoMovesKeepOrientation ==
    [][(/\ corner_orientation(cube) = 0
        /\ edge_orientation(cube) = 0
        /\ nmoves' = nmoves + 1
        /\ is_domino_move(last'))
       => (/\ corner_orientation(cube') = 0
           /\ edge_orientation(cube') = 0)]_vars

C11_DominoClosed ==
    [][(/\ is_domino_cube(cube)
        /\ nmoves' = nmoves + 1
        /\ is_domino_move(last'))
       => is_domino_cube(cube')]_vars

\* C11, the case at hand: a second move, a domino move, has just been applied
\* to a domino cube, one whose edge orientation coordinate is not 0
C11_Witness ==
    /\ nmoves = 2
    /\ is_domino_move(last)
    /\ is_domino_cube(apply(cube, reverse(last)))
    /\ is_domino_cube(cube)
    /\ edge_orientation(cube) > 0

\* C15: coordinates are well-defined under moves: for each of the four
\* coordinates X, two reachable cubes c1, c2 with X(c1) = X(c2) and every
\* move m, X(c1.apply(m)) = X(c2.apply(m)).  c1 is the cube at hand, c2 any
\* cube that differs from it in the last move applied.
C15_CoordinatesWellDefined ==
    nmoves > 0 =>
        \A k2 \in 1..18 : \A n \in 1..Len(CoordNames) :
            \A c2 \in {apply(apply(cube, reverse(last)), MoveAll[k2])} :
                (/\ CoordFn(CoordNames[n], cube) # PANIC
                 /\ CoordFn(CoordNames[n], cube) = CoordFn(CoordNames[n], c2))
                => \A k \in 1..18 :
                      /\ CoordFn(CoordNames[n], apply(cube, MoveAll[k])) # PANIC
                      /\ CoordFn(CoordNames[n], apply(cube, MoveAll[k]))
                            = CoordFn(CoordNames[n], apply(c2, MoveAll[k]))

\* C18: inverse sequences undo: c.apply_all(seq).apply_all(inverse_seq(seq))
\* equals c, for the cube at hand and the sequence of the moves that were
\* applied to it; and on the solved cube each of the 18 moves m is undone by
\* m.reverse().
C18_InverseUndoes ==
    /\ apply_all(apply_all(cube, seq), inverse_seq(seq)) = cube
    /\ cube = SolvedCube =>
          \A k \in 1..18 : apply(apply(cube, MoveAll[k]), reverse(MoveAll[k])) = cube

\* two moves that change the cube, and whose inverse is another sequence
C18_Witness ==
    /\ Len(seq) = 2
    /\ apply_all(cube, seq) # cube
    /\ inverse_seq(seq) # seq
    /\ seq[1].face # seq[2].face
    /\ apply_all(apply_all(cube, seq), inverse_seq(seq)) = cube

\* C28: moves on the same axis commute: when a move b is applied after a
\* move a on the same axis, the cube is the one that a after b gives, from
\* the cube c that a was applied to: c.apply(a).apply(b) = c.apply(b).apply(a).
C28_SameAxisCommute ==
    [][(/\ nmoves >= 1
        /\ nmoves' = nmoves + 1
        /\ same_axis(last.face, last'.face))
       => cube' = apply(apply(apply(cube, reverse(last)), last'), last)]_vars

\* two moves on opposite faces were applied; the other order gives this cube
C28_Witness ==
    /\ nmoves = 2
    /\ Len(seq) = 2
    /\ same_axis(seq[1].face, seq[2].face)
    /\ seq[1].face # seq[2].face
    /\ seq[1].direction = "Single"
    /\ cube = apply_all(apply_all(cube, inverse_seq(seq)), <<seq[2], seq[1]>>)

\* C20: Location::all() enumerates exactly 54 pairwise distinct locations,
\* grouped by cubie: the 6 centres (in the order of the faces, whatever the
\* cube), then for each of the 12 edge cubies Edge(a, b) followed by
\* Edge(b, a), then for each of the 8 corner cubies Corner(a, b, c),
\* Corner(b, a, c), Corner(c, a, b).
C20_LocationAllOrder ==
    /\ Len(LocationAll) = 54
    /\ \A i, j \in 1..Len(LocationAll) : i # j => LocationAll[i] # LocationAll[j]
    /\ \A k \in 1..6 :
          /\ LocationAll[k][1] = "Center"
          /\ get(cube, LocationAll[k]) = FaceSeq[k]
    /\ \A e \in 0..11 :
          /\ LocationAll[7 + 2 * e][1] = "Edge"
          /\ LocationAll[8 + 2 * e]
                = Edge(LocationAll[7 + 2 * e][3], LocationAll[7 + 2 * e][2])
    /\ Cardinality({ {LocationAll[7 + 2 * e][2], LocationAll[7 + 2 * e][3]} : e \in 0..11 }) = 12
    /\ \A c \in 0..7 :
          /\ LocationAll[31 + 3 * c][1] = "Corner"
          /\ LocationAll[32 + 3 * c]
                = Corner(LocationAll[31 + 3 * c][3], LocationAll[31 + 3 * c][2],
                         LocationAll[31 + 3 * c][4])
          /\ LocationAll[33 + 3 * c]
                = Corner(LocationAll[31 + 3 * c][4], LocationAll[31 + 3 * c][2],
                         LocationAll[31 + 3 * c][3])
    /\ Cardinality({ {LocationAll[31 + 3 * c][2], LocationAll[31 + 3 * c][3],
                      LocationAll[31 + 3 * c][4]} : c \in 0..7 }) = 8

\* the locations are read on a cube that two moves have changed: some
\* non-centre location shows another face than on the solved cube
C20_Witness ==
    /\ nmoves = 2
    /\ Len(LocationAll) = 54
    /\ \E k \in 7..Len(LocationAll) :
          get(cube, LocationAll[k]) # get(SolvedCube, LocationAll[k])

\* C16: coordinate ranges: on every cube reached from solved by moves,
\* corner_orientation < 3^7, edge_orientation < 2^11, corner_position < 8!
\* (which fits a u16) and edge_position < 12! (which fits a u32).
C16_CoordinateRanges ==
    /\ corner_orientation(cube) \in 0..(3^7 - 1)
    /\ edge_orientation(cube) \in 0..(2^11 - 1)
    /\ corner_position(cube) \in 0..(factorial(8) - 1)
    /\ factorial(8) - 1 < 65536
    /\ edge_position(cube) \in 0..(factorial(12) - 1)
    /\ factorial(12) - 1 <= 2147483647

\* C17: corner_orientation, edge_orientation, corner_position and
\* edge_position all return 0 on Cube::solved().
C17_SolvedIsZero ==
    cube = SolvedCube =>
        /\ corner_orientation(cube) = 0
        /\ edge_orientation(cube) = 0
        /\ corner_position(cube) = 0
        /\ edge_position(cube) = 0

\* the solved cube, come back to by two moves
C17_Witness ==
    /\ cube = SolvedCube
    /\ nmoves = 2

(***************************************************************************)
(* Sequences handed to an Evaluator: the move stack of a search grows one  *)
(* move at a time (move_stack.push) and is evaluated at every length       *)
(***************************************************************************)
InitEval ==
    /\ seq = <<>>
    /\ cube = SolvedCube
    /\ nmoves = 0
    /\ last = "none"
    /\ NoTable
    /\ NoStream
    /\ NoSearch
    /\ NoTransition

\* move_stack.push(m)
Push(m) ==
    /\ Len(seq) < MaxSeqLen
    /\ seq' = Append(seq, m)
    /\ UNCHANGED <<searchVars, transVars, cubeVars, tableVars, streamVars>>

NextEval == \E k \in 1..18 : Push(MoveAll[k])

SpecEval == InitEval /\ [][NextEval]_vars

\* C7: BlastMachineEvaluator is not super-linear in the sense of
\* challenge.rs: for every split of a sequence into a and b,
\* eval(a) + eval(b) <= eval(a ++ b).
C7_BlastNotSuperLinear ==
    \A k \in 0..Len(seq) :
        blast_eval(SubSeq(seq, 1, k)) + blast_eval(SubSeq(seq, k + 1, Len(seq)))
            <= blast_eval(seq)

\* C8: BlastMachineEvaluator::min_time of a sequence is at most the eval of
\* any sequence that contains it as a contiguous part (the sequence itself
\* included).
C8_BlastMinTimeIsLowerBound ==
    \A i \in 1..(Len(seq) + 1) : \A j \in (i - 1)..Len(seq) :
        blast_min_time(SubSeq(seq, i, j)) <= blast_eval(seq)

\* C19: could_follow(b, a) is true when the faces are on different axes,
\* false when the faces are equal, and for opposite faces true exactly when
\* b.face > a.face in Front < Back < Left < Right < Up < Down; and
\* should_consider is false for every sequence with two consecutive moves on
\* the same face.
C19_CouldFollowRule ==
    /\ \A i \in 1..(Len(seq) - 1) :
          could_follow(seq[i + 1], seq[i])
             = (CASE AxisOf(seq[i + 1].face) # AxisOf(seq[i].face) -> TRUE
                  [] seq[i + 1].face = seq[i].face -> FALSE
                  [] OTHER -> \E p, q \in 1..6 : /\ FaceSeq[p] = seq[i].face
                                                  /\ FaceSeq[q] = seq[i + 1].face
                                                  /\ p < q)
    /\ (\E i \in 1..(Len(seq) - 1) : seq[i + 1].face = seq[i].face)
          => ~should_consider(seq)

\* a sequence whose second move may follow the first and whose third move
\* is on the face of the second
C19_Witness ==
    /\ Len(seq) = 3
    /\ could_follow(seq[2], seq[1])
    /\ seq[3].face = seq[2].face
    /\ ~should_consider(seq)

\* C22: move parsing and display round-trip: parsing the Display string of
\* a move yields the move, and the Display string of the parse of a valid
\* token is the token.
C22_ParseDisplayRoundTrip ==
    /\ \A i \in 1..Len(seq) : from_str(move_fmt(seq[i])) = seq[i]
    /\ \A t \in ValidTokens :
          /\ from_str(t) # ParseErr
          /\ move_fmt(from_str(t)) = t
    /\ \A i \in 1..Len(seq) : move_fmt(seq[i]) \in ValidTokens

\* a sequence with a Single, a Reverse and a Double move, each printed and
\* parsed back
C22_Witness ==
    /\ Len(seq) = 3
    /\ {seq[i].direction : i \in 1..3} = Direction
    /\ \A i \in 1..3 : Len(move_fmt(seq[i])) = (IF seq[i].direction = "Single" THEN 1 ELSE 2)
    /\ \A i \in 1..3 : from_str(move_fmt(seq[i])) = seq[i]

\* C30: under the BlastMachineEvaluator a sequence whose consecutive pairs
\* satisfy could_follow costs at least 10 ms x ceil(|seq| / 2); so a stack
\* that find_solution(max_time, ..) enters below a stack within the bound
\* has at most 2 x floor(max_time / 10 ms) + 1 moves.
C30_BlastDepthBound ==
    should_consider(seq) =>
        /\ blast_eval(seq) >= single_move_time * ((Len(seq) + 1) \div 2)
        /\ \A max_time \in 0..MaxBestTime :
              (/\ Len(seq) > 0
               /\ blast_eval(SubSeq(seq, 1, Len(seq) - 1)) <= max_time)
              => Len(seq) <= 2 * (max_time \div single_move_time) + 1

\* three moves, the second on the axis of the first at no cost: the stack
\* of two costs 10 ms and the third move is entered at the bound 10 ms
C30_Witness ==
    /\ Len(seq) = 3
    /\ should_consider(seq)
    /\ same_axis(seq[1].face, seq[2].face)
    /\ blast_eval(SubSeq(seq, 1, 2)) = single_move_time
    /\ blast_eval(seq) = 2 * single_move_time

(***************************************************************************)
(* solver/kociemba.rs : HeuristicTable::init and expand_to_depth, one      *)
(* action per step of the recursion.  status is "call" when a call of      *)
(* expand_to_depth is about to run on move_stack, "ret" when it has just   *)
(* returned `ret`, "built" when init has returned the table, and           *)
(* "panicked" when the thread has panicked.                                *)
(***************************************************************************)
\* `for depth in 0..21`
DepthLimit == 21

\* (self.simplifier)(cube)
Coordinate(name, c) ==
    IF name = "corner_orientation" THEN corner_orientation(c) ELSE edge_orientation(c)

\* a call of expand_to_depth returns b
Return(b) ==
    /\ ret' = b
    /\ status' = "ret"
    /\ UNCHANGED <<move_stack, anys>>

\* a map insert that is lost: the map stays as it was
map_keep(m, value, time) == m

\* self.map.insert(value, time)
map_insert(m, value, time) ==
    [v \in DOMAIN m \cup {value} |-> IF v = value THEN time ELSE m[v]]

\* expand_to_depth from its entry to the end of its match: the early return,
\* the leaf arms that insert, the pruning arm, the first push of the fold
ExpandCall ==
    /\ status = "call"
    /\ LET inv == inverse_seq(move_stack)
           value == Coordinate(simplifier, apply_all(SolvedCube, move_stack))
           time == min_time(evaluator, inv)
           d == depth - Len(move_stack)
       IN  IF ~should_consider(inv)
             THEN Return(FALSE) /\ UNCHANGED map
           ELSE IF value = PANIC
             THEN status' = "panicked" /\ UNCHANGED <<move_stack, anys, ret, map>>
           ELSE IF d = 0
             THEN IF value \notin DOMAIN map \/ time < map[value]
                    THEN /\ map' = map_insert(map, value, time)
                         /\ Return(TRUE)
                    ELSE Return(FALSE) /\ UNCHANGED map
           ELSE IF value \notin DOMAIN map
             THEN status' = "panicked" /\ UNCHANGED <<move_stack, anys, ret, map>>
           ELSE IF map[value] < time
             THEN Return(FALSE) /\ UNCHANGED map
           ELSE /\ move_stack' = Append(move_stack, MoveAll[1])
                /\ anys' = Append(anys, FALSE)
                /\ UNCHANGED <<ret, status, map>>
    /\ UNCHANGED <<searchVars, transVars, cubeVars, seq, streamVars, evaluator, simplifier, pending, depth, heuristics>>

\* the position of move m in allowed_moves
MoveIndex(m) == CHOOSE k \in 1..18 : MoveAll[k] = m

\* the fold of expand_to_depth after a child call returned: move_stack.pop(),
\* any || result, and the push of the next allowed move
FoldNext ==
    /\ status = "ret"
    /\ move_stack # <<>>
    /\ MoveIndex(move_stack[Len(move_stack)]) < 18
    /\ move_stack' = [move_stack EXCEPT ![Len(move_stack)] =
                          MoveAll[MoveIndex(move_stack[Len(move_stack)]) + 1]]
    /\ anys' = [anys EXCEPT ![Len(anys)] = anys[Len(anys)] \/ ret]
    /\ status' = "call"
    /\ UNCHANGED <<searchVars, transVars, cubeVars, seq, streamVars, evaluator, simplifier, pending, depth, map, ret, heuristics>>

\* the fold of expand_to_depth after its last child call returned: the call
\* itself returns the accumulated `any`
FoldDone ==
    /\ status = "ret"
    /\ move_stack # <<>>
    /\ MoveIndex(move_stack[Len(move_stack)]) = 18
    /\ move_stack' = SubSeq(move_stack, 1, Len(move_stack) - 1)
    /\ anys' = SubSeq(anys, 1, Len(anys) - 1)
    /\ ret' = (anys[Len(anys)] \/ ret)
    /\ UNCHANGED <<searchVars, transVars, cubeVars, seq, streamVars, evaluator, simplifier, pending, depth, map, status, heuristics>>

\* the loop of HeuristicTable::init after expand_to_depth(depth, []) returned:
\* the next depth, or the finished table (and Kociemba::init's next table)
InitLoop ==
    /\ status = "ret"
    /\ move_stack = <<>>
    /\ IF ret /\ depth + 1 < DepthLimit
         THEN /\ depth' = depth + 1
              /\ status' = "call"
              /\ UNCHANGED <<simplifier, pending, map, heuristics>>
         ELSE /\ heuristics' = Append(heuristics, [name |-> simplifier, exhaustive |-> TRUE, map |-> map])
              /\ IF pending # <<>>
                   THEN /\ simplifier' = Head(pending)
                        /\ pending' = Tail(pending)
                        /\ map' = EmptyMap
                        /\ depth' = 0
                        /\ status' = "call"
                   ELSE /\ status' = "built"
                        /\ UNCHANGED <<simplifier, pending, map, depth>>
    /\ UNCHANGED <<searchVars, transVars, cubeVars, seq, streamVars, evaluator, move_stack, anys, ret>>

NextTable == ExpandCall \/ FoldNext \/ FoldDone \/ InitLoop

\* HeuristicTable::init(name, simplifier, &Move::all(), evaluator, None)
InitTable ==
    /\ evaluator \in Evaluators
    /\ simplifier \in {"corner_orientation", "edge_orientation"}
    /\ pending = <<>>
    /\ depth = 0
    /\ move_stack = <<>>
    /\ map = EmptyMap
    /\ anys = <<>>
    /\ ret = FALSE
    /\ status = "call"
    /\ heuristics = <<>>
    /\ cube = SolvedCube
    /\ nmoves = 0
    /\ last = "none"
    /\ seq = <<>>
    /\ NoStream
    /\ NoSearch
    /\ NoTransition

SpecTable == InitTable /\ [][NextTable]_vars

\* how long the move sequences are that the claims about built tables probe
MaxProbe == 1

\* every move sequence of at most n moves
SeqsUpTo(n) == UNION {[1..k -> Move] : k \in 0..n}

\* Heuristic::min_time that panics on every missing key, whatever
\* h.exhaustive says
heuristic_min_time_strict(h, c) ==
    CHOOSE t \in { IF value = PANIC THEN PANIC
                   ELSE IF value \in DOMAIN h.map THEN h.map[value]
                   ELSE PANIC : value \in {Coordinate(h.name, c)} } : TRUE

\* Heuristic::min_time of the table h: the stored value; on a missing key a
\* panic when h.exhaustive, Duration::default() otherwise
heuristic_min_time(h, c) ==
    CHOOSE t \in { IF value = PANIC THEN PANIC
                   ELSE IF value \in DOMAIN h.map THEN h.map[value]
                   ELSE IF h.exhaustive THEN PANIC
                   ELSE 0 : value \in {Coordinate(h.name, c)} } : TRUE

\* Phase::min_time: the max over the heuristics, Duration::default() for
\* none; PhaseFold is the max over heuristics[k..] and acc
RECURSIVE PhaseFold(_, _, _, _)
PhaseFold(hs, c, k, acc) ==
    IF k > Len(hs) THEN acc
    ELSE CHOOSE r \in
           { IF t = PANIC THEN PANIC
             ELSE PhaseFold(hs, c, k + 1, IF t > acc THEN t ELSE acc) :
               t \in {heuristic_min_time(hs[k], c)} } : TRUE

phase_min_time(hs, c) == PhaseFold(hs, c, 1, 0)

\* the cost of the stack without its last move plus the phase's bound: what
\* this_time would be if it were taken before the push
this_time_before_push(e, hs, p, c) ==
    CHOOSE t \in { IF m = PANIC THEN PANIC
                   ELSE IF p = <<>> THEN m
                   ELSE eval(e, SubSeq(p, 1, Len(p) - 1)) + m :
                     m \in {phase_min_time(hs, c)} } : TRUE

\* this_time of find_solution, for the cube c reached by move_stack p
this_time(e, hs, p, c) ==
    CHOOSE t \in { IF m = PANIC THEN PANIC ELSE eval(e, p) + m :
                     m \in {phase_min_time(hs, c)} } : TRUE

\* C5: HeuristicTable::init returns a table, and the table is admissible:
\* for every cube c and every sequence s of allowed moves that takes c to
\* coordinate 0, the stored value H(X(c)) is at most evaluator.eval(s).
C5_TableAdmissible ==
    /\ status # "panicked"
    /\ status = "built" =>
         \A p \in SeqsUpTo(MaxProbe) : \A s \in SeqsUpTo(MaxProbe) :
            LET c == apply_all(SolvedCube, p)
                h == [name |-> simplifier, exhaustive |-> TRUE, map |-> map]
            IN  Coordinate(simplifier, apply_all(c, s)) = 0
                    => /\ heuristic_min_time(h, c) # PANIC
                       /\ heuristic_min_time(h, c) <= eval(evaluator, s)

\* the cubes the lookup is probed with: every cube at most MaxProbe moves
\* from solved
ProbeCubes == {apply_all(SolvedCube, p) : p \in SeqsUpTo(MaxProbe)}

\* the table being built, as a heuristic of either kind: what init returns
\* when it stops at this point with max_setup = None (exhaustive) or with
\* max_setup = Some(max) and the time elapsed (approximate)
TableAs(ex) == [name |-> simplifier, exhaustive |-> ex, map |-> map]

\* C21: init with max_setup = None returns a table that is complete: the
\* coordinate of every reachable cube is a key, so Heuristic::min_time does
\* not panic on a reachable cube.
C21_ExhaustiveComplete ==
    /\ status = "built" =>
          \A c \in ProbeCubes : heuristic_min_time(TableAs(TRUE), c) # PANIC
    /\ status = "panicked" =>
          Coordinate(simplifier, apply_all(SolvedCube, move_stack)) # PANIC

\* C29: whenever expand_to_depth is entered with depth > 0 on a move stack
\* whose inverse passes should_consider, the coordinate of the stack's cube is
\* already a key of the map, so the `(_, None) => unreachable!()` arm is
\* never executed.
C29_UnreachableArm ==
    (/\ status = "call"
     /\ depth - Len(move_stack) > 0
     /\ should_consider(inverse_seq(move_stack)))
    => \A value \in {Coordinate(simplifier, apply_all(SolvedCube, move_stack))} :
          value # PANIC => value \in DOMAIN map

\* expand_to_depth is entered with depth 1 left on a stack of one move,
\* whose coordinate an earlier pass inserted
C29_Witness ==
    /\ status = "call"
    /\ depth = 2
    /\ Len(move_stack) = 1
    /\ should_consider(inverse_seq(move_stack))
    /\ Coordinate(simplifier, apply_all(SolvedCube, move_stack)) \in DOMAIN map
    /\ Coordinate(simplifier, apply_all(SolvedCube, move_stack)) # 0

\* the states that show each table the expansion goes through: the empty
\* table, and the table as a call of expand_to_depth that inserted returns
Inserted == status # "panicked" /\ (map = EmptyMap \/ (status = "ret" /\ ret))

\* C25: Heuristic::min_time returns the stored value for a key that is
\* present, whatever the kind of table; on a missing key an exhaustive table
\* panics and an approximate table returns Duration zero.
C25_MissingKeyLookup ==
    Inserted =>
        \A c \in ProbeCubes : \A ex \in BOOLEAN :
            \A r \in { <<Coordinate(simplifier, c), heuristic_min_time(TableAs(ex), c)>> } :
                r[1] # PANIC =>
                    /\ r[1] \in DOMAIN map => r[2] = map[r[1]]
                    /\ (r[1] \notin DOMAIN map /\ ex) => r[2] = PANIC
                    /\ (r[1] \notin DOMAIN map /\ ~ex) => r[2] = 0

\* a table holding a stored non-zero duration that is looked up, and a cube
\* whose key is missing: the approximate table answers zero, the exhaustive
\* one panics
C25_Witness ==
    /\ Inserted
    /\ \E c \in ProbeCubes :
          /\ Coordinate(simplifier, c) \in DOMAIN map
          /\ map[Coordinate(simplifier, c)] > 0
          /\ heuristic_min_time(TableAs(FALSE), c) = map[Coordinate(simplifier, c)]
    /\ \E c \in ProbeCubes :
          /\ Coordinate(simplifier, c) # PANIC
          /\ Coordinate(simplifier, c) \notin DOMAIN map
          /\ heuristic_min_time(TableAs(FALSE), c) = 0
          /\ heuristic_min_time(TableAs(TRUE), c) = PANIC

(***************************************************************************)
(* main.rs : main builds the scrambled cube and calls Kociemba::init,      *)
(* which builds the corner_orientation table and then the edge_orientation *)
(* table of the to_domino phase.  The steps of init are those of           *)
(* HeuristicTable::init above.                                             *)
(***************************************************************************)
InitMain ==
    /\ \E s \in Scrambles : cube = apply_all(SolvedCube, s)
    /\ nmoves = 0
    /\ last = "none"
    /\ seq = <<>>
    /\ evaluator \in Evaluators
    /\ simplifier = "corner_orientation"
    /\ pending = <<"edge_orientation">>
    /\ depth = 0
    /\ move_stack = <<>>
    /\ map = EmptyMap
    /\ anys = <<>>
    /\ ret = FALSE
    /\ status = "call"
    /\ heuristics = <<>>
    /\ to_domino = <<>>
    /\ solution = <<>>
    /\ wpc = "idle"
    /\ ix = 0
    /\ chan = <<>>
    /\ moves = <<>>
    /\ result_cube = cube
    /\ mpc = "init"
    /\ NoSearch
    /\ NoTransition

SpecMain == InitMain /\ [][NextTable]_vars

\* the program has stopped: a thread panicked, or main has left its loop
\* over the iterator
Stopped == status = "panicked" \/ wpc = "panicked" \/ mpc = "report"

\* C1: solver correctness.  When the program has stopped, the moves yielded
\* by solve(cube), applied in order to the scrambled cube, give
\* Cube::solved().
C1_SolverCorrect ==
    Stopped => apply_all(cube, moves) = SolvedCube

\* C2: termination of a solve.  The program stops only after the worker has
\* returned from both solve_to calls and dropped the sender, with every move
\* it sent received.
C2_SolveTerminates ==
    Stopped => (wpc = "done" /\ chan = <<>>)

\* C6: search lower bound.  With the BlastMachineEvaluator, Kociemba::init
\* builds its tables, and with them f = eval(p) + phase.min_time(c.apply_all(p))
\* is at most eval(p ++ s) for every move stack p and continuation s such
\* that p ++ s satisfies could_follow pairwise and reaches a domino cube.
C6_SearchLowerBound ==
    evaluator = "blast" =>
      /\ status # "panicked"
      /\ status = "built" =>
           \A p \in SeqsUpTo(MaxProbe) : \A s \in SeqsUpTo(MaxProbe) :
              (should_consider(p \o s) /\ is_domino_cube(apply_all(cube, p \o s)))
                 => /\ this_time(evaluator, heuristics, p, apply_all(cube, p)) # PANIC
                    /\ this_time(evaluator, heuristics, p, apply_all(cube, p))
                          <= eval(evaluator, p \o s)

\* C9: single-turn undo.  With the uniform evaluator and the scramble "F",
\* the program stops having yielded exactly the one move F', of cost 10 ms.
C9_SingleTurnUndo ==
    (Stopped /\ evaluator = "uniform" /\ cube = apply_all(SolvedCube, SingleScramble))
        => /\ moves = <<Mv("Front", "Reverse")>>
           /\ eval(evaluator, moves) = 10

(***************************************************************************)
(* solver/kociemba.rs : Kociemba::solve.  The worker thread runs the two   *)
(* solve_to calls and sends the moves over an mpsc channel; main receives  *)
(* them through the iterator.  What a solve_to call returns is an input:   *)
(* find_solution returns move_stack.clone(), a sequence that extends the   *)
(* prefix it was given.                                                    *)
(***************************************************************************)
\* how many moves a solve_to call adds to its prefix
MaxPhaseLen == 2

\* the moves the drawn results of solve_to(.., to_domino, ..) are made of
ToDominoInputs == {Mv("Front", "Single"), Mv("Right", "Reverse"), Mv("Up", "Double")}

\* the moves the drawn results of solve_to(.., post_domino, ..) add
PostDominoInputs == {Mv("Up", "Single"), Mv("Front", "Double"), Mv("Down", "Reverse")}

\* every sequence of at most n elements of S
SeqsOver(S, n) == UNION {[1..k -> S] : k \in 0..n}

\* a mutation of send: the move jumps the queue
send_front(ch, m) == <<m>> \o ch

\* Sender::send on the unbounded channel: the move joins the back of the queue
send(ch, m) == Append(ch, m)

\* a channel that never reports its receiver gone
never_disconnected(consumer) == FALSE

\* Sender::send fails once the receiver is dropped: consumer is what the
\* holder of the iterator is doing
disconnected(consumer) == consumer = "dropped"

\* &solution[domino_len..]
slice_from(v, domino_len) == SubSeq(v, domino_len + 1, Len(v))

\* main has called solver.solve(cube): the worker is spawned, main iterates
InitStream ==
    /\ \E s \in {<<>>, SmallScramble} : cube = apply_all(SolvedCube, s)
    /\ nmoves = 0
    /\ last = "none"
    /\ seq = <<>>
    /\ NoTable
    /\ to_domino = <<>>
    /\ solution = <<>>
    /\ wpc = "spawned"
    /\ ix = 0
    /\ chan = <<>>
    /\ moves = <<>>
    /\ result_cube = cube
    /\ mpc = "recv"
    /\ NoSearch
    /\ NoTransition

\* let to_domino = this.solve_to(&cube, &this.to_domino, Vec::new())
SolveToDomino ==
    /\ wpc = "spawned"
    /\ \E p \in SeqsOver(ToDominoInputs, MaxPhaseLen) : to_domino' = p
    /\ wpc' = "send_domino"
    /\ ix' = 0
    /\ UNCHANGED <<searchVars, transVars, cubeVars, seq, tableVars, solution, chan, moves, result_cube, mpc>>

\* one turn of `for m in &to_domino { tx.send(*m).unwrap(); }`; the send
\* is an Err when the receiver is gone, and the unwrap panics
SendDomino ==
    /\ wpc = "send_domino"
    /\ ix < Len(to_domino)
    /\ IF disconnected(mpc)
         THEN wpc' = "panicked" /\ UNCHANGED <<chan, ix>>
         ELSE /\ chan' = send(chan, to_domino[ix + 1])
              /\ ix' = ix + 1
              /\ UNCHANGED wpc
    /\ UNCHANGED <<searchVars, transVars, cubeVars, seq, tableVars, to_domino, solution, moves, result_cube, mpc>>

\* let solution = this.solve_to(&cube, &this.post_domino, to_domino)
SolvePostDomino ==
    /\ wpc = "send_domino"
    /\ ix = Len(to_domino)
    /\ \E t \in SeqsOver(PostDominoInputs, MaxPhaseLen) : solution' = to_domino \o t
    /\ wpc' = "send_solution"
    /\ ix' = 0
    /\ UNCHANGED <<searchVars, transVars, cubeVars, seq, tableVars, to_domino, chan, moves, result_cube, mpc>>

\* one turn of `for m in &solution[domino_len..] { tx.send(*m).unwrap(); }`,
\* with the same panic on a failed send
SendSolution ==
    /\ wpc = "send_solution"
    /\ ix < Len(slice_from(solution, Len(to_domino)))
    /\ IF disconnected(mpc)
         THEN wpc' = "panicked" /\ UNCHANGED <<chan, ix>>
         ELSE /\ chan' = send(chan, slice_from(solution, Len(to_domino))[ix + 1])
              /\ ix' = ix + 1
              /\ UNCHANGED wpc
    /\ UNCHANGED <<searchVars, transVars, cubeVars, seq, tableVars, to_domino, solution, moves, result_cube, mpc>>

\* the worker's closure returns: tx is dropped
WorkerReturn ==
    /\ wpc = "send_solution"
    /\ ix = Len(slice_from(solution, Len(to_domino)))
    /\ wpc' = "done"
    /\ UNCHANGED <<searchVars, transVars, cubeVars, seq, tableVars, to_domino, solution, ix, chan, moves,
                   result_cube, mpc>>

\* one turn of main's `for move_ in solver.solve(cube)`: the iterator gives
\* the move at the front of the queue
Recv ==
    /\ mpc = "recv"
    /\ chan # <<>>
    /\ result_cube' = apply(result_cube, Head(chan))
    /\ moves' = Append(moves, Head(chan))
    /\ chan' = Tail(chan)
    /\ UNCHANGED <<searchVars, transVars, cubeVars, seq, tableVars, to_domino, solution, wpc, ix, mpc>>

\* the iterator ends: the queue is empty and the sender is dropped
IterEnd ==
    /\ mpc = "recv"
    /\ chan = <<>>
    /\ wpc = "done"
    /\ mpc' = "report"
    /\ UNCHANGED <<searchVars, transVars, cubeVars, seq, tableVars, to_domino, solution, wpc, ix, chan, moves,
                   result_cube>>

NextStream ==
    \/ SolveToDomino
    \/ SendDomino
    \/ SolvePostDomino
    \/ SendSolution
    \/ WorkerReturn
    \/ Recv
    \/ IterEnd

SpecStream == InitStream /\ [][NextStream]_vars

\* C3: stream ordering.  What main has received, followed by what is still
\* in the channel, is always the moves of P1 the worker has sent so far,
\* then (only after all of P1) the moves of P[|P1|..] sent so far, in order;
\* when the iterator has ended, main has received exactly P1 then P[|P1|..].
C3_StreamOrdering ==
    /\ wpc \in {"spawned", "send_domino"} =>
          moves \o chan = SubSeq(to_domino, 1, ix)
    /\ wpc \in {"send_solution", "done"} =>
          moves \o chan =
              to_domino \o SubSeq(solution, Len(to_domino) + 1, Len(to_domino) + ix)
    /\ mpc = "report" =>
          moves = to_domino \o SubSeq(solution, Len(to_domino) + 1, Len(solution))

\* C3, the case at hand: the iterator has ended after a phase-1 part and a
\* phase-2 part of two different moves each
C3_Witness ==
    /\ mpc = "report"
    /\ Len(to_domino) = 2
    /\ Len(solution) = 4
    /\ to_domino[1] # to_domino[2]
    /\ solution[3] # solution[4]
    /\ moves = solution

(***************************************************************************)
(* Kociemba::solve with a consumer that may drop the iterator it was       *)
(* given at any point of its iteration: the receiver goes, and with it the *)
(* moves still queued.                                                     *)
(***************************************************************************)
\* the consumer drops the Box<dyn Iterator> (the Receiver)
DropIter ==
    /\ mpc = "recv"
    /\ mpc' = "dropped"
    /\ chan' = <<>>
    /\ UNCHANGED <<searchVars, transVars, cubeVars, seq, tableVars, to_domino, solution, wpc, ix, moves,
                   result_cube>>

NextCancel == NextStream \/ DropIter

SpecCancel == InitStream /\ [][NextCancel]_vars

\* C26: cancellation.  Once the consumer has dropped the receiver, no move
\* is sent; the worker's next send fails and the worker terminates at that
\* send; after that the worker starts no further search and sends nothing.
C26_Cancellation ==
    [][/\ mpc = "dropped" => chan' = chan
       /\ (/\ mpc = "dropped"
           /\ \/ wpc = "send_domino" /\ ix < Len(to_domino)
              \/ wpc = "send_solution" /\ ix < Len(slice_from(solution, Len(to_domino))))
          => wpc' = "panicked"
       /\ wpc' = "panicked" => (mpc = "dropped" /\ ix' = ix)
       /\ wpc = "panicked"
          => (wpc' = "panicked" /\ solution' = solution /\ to_domino' = to_domino)]_vars

\* the receiver was dropped after main took one phase-1 move, with another
\* still to send: the worker panicked at that send, before the second search
C26_Witness ==
    /\ mpc = "dropped"
    /\ wpc = "panicked"
    /\ Len(moves) = 1
    /\ Len(to_domino) = 2
    /\ ix = 1
    /\ solution = <<>>

(***************************************************************************)
(* solver/kociemba.rs : Kociemba::solve_to and find_solution.  A Phase is  *)
(* a record; a Search is NotFound(time), Found(moves), or the panic of a   *)
(* heuristic lookup.  One pass of the loop of solve_to is one call of      *)
(* find_solution followed by the match on what it returned.                *)
(***************************************************************************)
\* Duration::MAX, above every duration a search reaches
DurationMax == 2147483647

NotFound(t) == [tag |-> "NotFound", time |-> t]

Found(m) == [tag |-> "Found", moves |-> m]

Panicked == [tag |-> "Panicked"]

\* Kociemba::init, post_domino: the domino moves, `*c == Cube::solved()`, no
\* heuristics
post_domino ==
    [allowed_moves |-> domino_moves, finished_when |-> "solved", heuristics |-> <<>>]

\* Phase::is_finished
is_finished(ph, c) ==
    IF ph.finished_when = "solved" THEN c = SolvedCube ELSE is_domino_cube(c)

\* the match (best, sub) that forgets the accumulator
combine_last(e, best, sub) == sub

\* the match (best, sub) in the fold of find_solution
Combine(e, best, sub) ==
    CASE best.tag = "Panicked" \/ sub.tag = "Panicked" -> Panicked
      [] best.tag = "NotFound" /\ sub.tag = "NotFound" ->
            NotFound(IF best.time <= sub.time THEN best.time ELSE sub.time)
      [] best.tag = "Found" /\ sub.tag = "NotFound" -> best
      [] best.tag = "NotFound" /\ sub.tag = "Found" -> sub
      [] best.tag = "Found" /\ sub.tag = "Found" ->
            IF eval(e, best.moves) <= eval(e, sub.moves) THEN best ELSE sub

\* Duration's comparisons: a >= b, and the a > b of `this_time > max_time`
ge(a, b) == a >= b

gt(a, b) == a > b

\* move_stack.push(move_) and move_stack.pop()
push(stack, move_) == Append(stack, move_)

\* a pop that leaves the stack as it is
pop_none(stack) == stack

pop(stack) == SubSeq(stack, 1, Len(stack) - 1)

\* move_stack.last().cloned(): the Option as a sequence of at most one move
last_of(stack) == IF stack = <<>> THEN <<>> ELSE <<stack[Len(stack)]>>

\* find_solution(max_time, cube, move_stack, phase), and its fold over
\* phase.allowed_moves[k..] with the accumulator best.  Both return the
\* Search together with move_stack as the call leaves it: the stack is
\* `&mut`, pushed before and popped after each sub-search.  The sub-search
\* is bound through a singleton set, so that it is computed once, as in the
\* source.
RECURSIVE find_solution(_, _, _, _, _), FoldMoves(_, _, _, _, _, _, _, _)
find_solution(e, max_time, c, stack, ph) ==
    CHOOSE r \in
      { IF tt = PANIC THEN [search |-> Panicked, stack |-> stack]
        ELSE IF gt(tt, max_time) THEN [search |-> NotFound(tt), stack |-> stack]
        ELSE IF is_finished(ph, c) THEN [search |-> Found(stack), stack |-> stack]
        ELSE FoldMoves(e, max_time, c, stack, ph, 1, NotFound(DurationMax),
                       last_of(stack)) :
          tt \in {this_time(e, ph.heuristics, stack, c)} } : TRUE

FoldMoves(e, max_time, c, stack, ph, k, best, last_move) ==
    IF k > Len(ph.allowed_moves) \/ best.tag = "Panicked"
      THEN [search |-> best, stack |-> stack]
    ELSE LET move_ == ph.allowed_moves[k]
         IN  IF last_move # <<>> /\ ~could_follow(move_, last_move[1])
               THEN FoldMoves(e, max_time, c, stack, ph, k + 1, best, last_move)
               ELSE CHOOSE r \in
                      { FoldMoves(e, max_time, c, pop(sub.stack), ph, k + 1,
                                  Combine(e, best, sub.search), last_move) :
                          sub \in { find_solution(e, max_time, apply(c, move_),
                                                  push(stack, move_), ph) } } : TRUE

\* the nodes of one pass of find_solution(max_time, ..) below the cube c and
\* stack: `cut` holds this_time of every node the pass cuts off
\* (this_time > max_time), `finished` tells whether the pass meets a finished
\* node within the bound.  A node within the bound that is not finished is
\* expanded by every allowed move that could follow its last move.
RECURSIVE Frontier(_, _, _, _, _), FrontierFold(_, _, _, _, _, _)
Frontier(e, max_time, c, stack, ph) ==
    CHOOSE r \in
      { IF tt = PANIC \/ tt > max_time THEN [cut |-> {tt}, finished |-> FALSE]
        ELSE IF is_finished(ph, c) THEN [cut |-> {}, finished |-> TRUE]
        ELSE FrontierFold(e, max_time, c, stack, ph, 1) :
          tt \in {this_time(e, ph.heuristics, stack, c)} } : TRUE

FrontierFold(e, max_time, c, stack, ph, k) ==
    IF k > Len(ph.allowed_moves) THEN [cut |-> {}, finished |-> FALSE]
    ELSE IF stack # <<>> /\ ~could_follow(ph.allowed_moves[k], stack[Len(stack)])
      THEN FrontierFold(e, max_time, c, stack, ph, k + 1)
    ELSE CHOOSE r \in
           { [cut |-> a.cut \cup b.cut, finished |-> a.finished \/ b.finished] :
               a \in { Frontier(e, max_time, apply(c, ph.allowed_moves[k]),
                                Append(stack, ph.allowed_moves[k]), ph) },
               b \in { FrontierFold(e, max_time, c, stack, ph, k + 1) } } : TRUE

\* the least element of a non-empty set of durations
Least(S) == CHOOSE x \in S : \A y \in S : x <= y

\* the <<scramble, prefix>> pairs solve_to is run on: cube is the scrambled
\* cube, prefix the moves already found for it
SearchInputs ==
    { <<parse_sequence(<<>>), <<>>>>,
      <<parse_sequence(<< <<"U">> >>), <<>>>>,
      <<parse_sequence(<< <<"F", "2">> >>), <<>>>>,
      <<parse_sequence(<< <<"U">>, <<"R", "2">> >>), <<>>>>,
      <<parse_sequence(<< <<"D", "'">>, <<"L", "2">> >>), <<>>>>,
      <<parse_sequence(<< <<"U">>, <<"D">> >>), <<>>>>,
      <<parse_sequence(<< <<"F", "'">> >>), parse_sequence(<< <<"F">> >>)>>,
      <<parse_sequence(<< <<"F">> >>), parse_sequence(<< <<"F">> >>)>>,
      <<parse_sequence(<< <<"L", "2">>, <<"R", "2">> >>), <<>>>>,
      <<parse_sequence(<< <<"B", "2">>, <<"U", "'">> >>), <<>>>>,
      <<parse_sequence(<< <<"U", "2">>, <<"R", "'">> >>), parse_sequence(<< <<"R">> >>)>> }

\* solve_to(&cube, &this.post_domino, prefix) is entered:
\* best_time = evaluator.eval(&prefix)
InitSearch ==
    /\ \E i \in SearchInputs :
          /\ cube = apply_all(SolvedCube, i[1])
          /\ move_stack = i[2]
    /\ evaluator \in Evaluators
    /\ phase = post_domino
    /\ best_time = eval(evaluator, move_stack)
    /\ search = "none"
    /\ spc = "loop"
    /\ nmoves = 0
    /\ last = "none"
    /\ seq = <<>>
    /\ simplifier = "none"
    /\ pending = <<>>
    /\ depth = 0
    /\ map = EmptyMap
    /\ anys = <<>>
    /\ ret = FALSE
    /\ status = "idle"
    /\ heuristics = <<>>
    /\ NoStream
    /\ NoTransition

\* self.find_solution(best_time, &cube, &mut prefix, phase), on the cube
\* with the prefix applied
FindSolution ==
    /\ spc = "loop"
    /\ best_time <= MaxBestTime
    /\ \E r \in { find_solution(evaluator, best_time, apply_all(cube, move_stack),
                                 move_stack, phase) } :
          /\ search' = r.search
          /\ move_stack' = r.stack
    /\ spc' = "match"
    /\ UNCHANGED <<cubeVars, seq, streamVars, transVars, phase, best_time>>
    /\ UNCHANGED <<evaluator, simplifier, pending, depth, map, anys, ret, status, heuristics>>

\* Search::Found(moves) => return moves
MatchFound ==
    /\ spc = "match"
    /\ search.tag = "Found"
    /\ spc' = "returned"
    /\ UNCHANGED <<cubeVars, seq, tableVars, streamVars, transVars, phase, best_time, search>>

\* Search::NotFound(next_best_time) => best_time = next_best_time
MatchNotFound ==
    /\ spc = "match"
    /\ search.tag = "NotFound"
    /\ best_time' = search.time
    /\ spc' = "loop"
    /\ UNCHANGED <<cubeVars, seq, tableVars, streamVars, transVars, phase, search>>

NextSearch == FindSolution \/ MatchFound \/ MatchNotFound

SpecSearch == InitSearch /\ [][NextSearch]_vars

\* C12: the bound of solve_to strictly increases: whenever
\* find_solution(best_time, ...) returns NotFound(next), next > best_time
C12_BoundIncreases ==
    (spc = "match" /\ search.tag = "NotFound") => search.time > best_time

\* a later pass of the loop, entered with an already raised bound, comes back
\* with NotFound of a real cost
C12_Witness ==
    /\ spc = "match"
    /\ search.tag = "NotFound"
    /\ best_time > eval(evaluator, move_stack)
    /\ search.time < DurationMax

\* C13: the sequence solve_to returns costs at most the best_time of the
\* pass that found it: every Found of find_solution(max_time, ...) has
\* eval <= max_time
C13_FoundWithinBound ==
    (spc \in {"match", "returned"} /\ search.tag = "Found")
        => eval(evaluator, search.moves) <= best_time

\* solve_to returned moves beyond the prefix, found after the bound was raised
C13_Witness ==
    /\ spc = "returned"
    /\ search.tag = "Found"
    /\ Len(search.moves) > Len(move_stack)
    /\ best_time > eval(evaluator, move_stack)

\* C24: a pass of find_solution that meets no finished node within the bound
\* returns NotFound(b), where b is the least this_time = eval(stack) +
\* phase.min_time(cube) over all the nodes the pass cut off.
C24_NotFoundIsLeastCut ==
    (spc = "match" /\ search.tag # "Panicked") =>
        \A fr \in { Frontier(evaluator, best_time, apply_all(cube, move_stack),
                              move_stack, phase) } :
            (~fr.finished /\ fr.cut # {}) => search = NotFound(Least(fr.cut))

\* a pass under a raised bound that cut nodes off at different costs and
\* returned the least of them
C24_Witness ==
    /\ spc = "match"
    /\ search.tag = "NotFound"
    /\ best_time > eval(evaluator, move_stack)
    /\ \E fr \in { Frontier(evaluator, best_time, apply_all(cube, move_stack),
                              move_stack, phase) } :
          /\ ~fr.finished
          /\ Cardinality(fr.cut) >= 2
          /\ search.time = Least(fr.cut)

\* C27: find_solution leaves the move stack as it found it (every push is
\* matched by a pop), and a Found(moves) it returns has the entry stack as
\* a prefix: solve_to returns a sequence that starts with `prefix`, so that
\* solution[domino_len..] is in bounds.
C27_StackRestored ==
    [][(spc = "loop" /\ spc' = "match")
       => /\ move_stack' = move_stack
          /\ search'.tag = "Found"
               => /\ Len(search'.moves) >= Len(move_stack)
                  /\ SubSeq(search'.moves, 1, Len(move_stack)) = move_stack]_vars

\* solve_to with a prefix returned the prefix and moves beyond it, with the
\* stack of the call back at the prefix
C27_Witness ==
    /\ spc = "returned"
    /\ search.tag = "Found"
    /\ move_stack # <<>>
    /\ Len(search.moves) > Len(move_stack)
    /\ SubSeq(search.moves, 1, Len(move_stack)) = move_stack

(***************************************************************************)
(* cube/coord.rs : SingleTable::populate_with, which TransitionTable::init *)
(* runs for each coordinate function before CoordCube::apply can look a    *)
(* transition up.  One action per pop of to_expand and one per move of the *)
(* for loop.  tpc is "pop" at the head of the while loop, "for" inside the *)
(* for loop, "done" after the loop and "panicked" when a call panicked.    *)
(***************************************************************************)
\* how many transitions the table may hold when a further cube is popped
MaxTableLen == 30

\* SingleTable::len
len(t) == Cardinality(DOMAIN t)

\* SingleTable::has_outgoing
has_outgoing(t, v) == \E k \in 1..18 : <<MoveAll[k], v>> \in DOMAIN t

\* SingleTable::insert: the table after the insert; ok is FALSE when the
\* entry is there already and assert_eq!(already, None) fails
insert(t, v, move_, to_v) ==
    IF v = to_v THEN [ok |-> TRUE, table |-> t]
    ELSE IF <<move_, v>> \in DOMAIN t THEN [ok |-> FALSE, table |-> t]
    ELSE [ok |-> TRUE,
          table |-> [k \in DOMAIN t \cup {<<move_, v>>} |->
                       IF k = <<move_, v>> THEN to_v ELSE t[k]]]

\* populate_with(name, f) is entered: to_expand holds the solved cube
InitTransition ==
    /\ \E k \in 1..Len(CoordNames) : table_name = CoordNames[k]
    /\ to_expand = [v \in {CoordFn(table_name, SolvedCube)} |-> SolvedCube]
    /\ transitions = EmptyMap
    /\ from_v = 0
    /\ from = SolvedCube
    /\ m_ix = 0
    /\ tpc = "pop"
    /\ cube = SolvedCube
    /\ nmoves = 0
    /\ last = "none"
    /\ seq = <<>>
    /\ NoTable
    /\ NoStream
    /\ NoSearch

\* while let Some((from_v, from)) = pop_front(&mut to_expand), with
\* assert!(!self.has_outgoing(&from_v)); the loop ends on None
PopFront ==
    /\ tpc = "pop"
    /\ len(transitions) <= MaxTableLen
    /\ IF DOMAIN to_expand = {}
         THEN /\ tpc' = "done"
              /\ UNCHANGED <<to_expand, from_v, from, m_ix>>
         ELSE \E key \in DOMAIN to_expand :
                /\ \A other \in DOMAIN to_expand : key <= other
                /\ from_v' = key
                /\ from' = to_expand[key]
                /\ to_expand' = [v \in DOMAIN to_expand \ {key} |-> to_expand[v]]
                /\ IF has_outgoing(transitions, key)
                     THEN tpc' = "panicked" /\ m_ix' = m_ix
                     ELSE tpc' = "for" /\ m_ix' = 1
    /\ UNCHANGED <<cubeVars, seq, tableVars, streamVars, searchVars, table_name, transitions>>

\* one pass of `for m in Move::all()`: f(&to), self.insert(from_v, m, to_v),
\* and the insert into to_expand when should_expand
ForMove ==
    /\ tpc = "for"
    /\ \E to \in {apply(from, MoveAll[m_ix])} :
       \E to_v \in {CoordFn(table_name, to)} :
       \E t2 \in {IF to_v = PANIC THEN [ok |-> FALSE, table |-> transitions]
                  ELSE insert(transitions, from_v, MoveAll[m_ix], to_v)} :
          IF ~t2.ok
            THEN /\ tpc' = "panicked"
                 /\ UNCHANGED <<to_expand, transitions, m_ix>>
            ELSE /\ transitions' = t2.table
                 /\ to_expand' =
                       IF /\ to_v \notin DOMAIN to_expand
                          /\ ~has_outgoing(t2.table, to_v)
                          /\ to_v # from_v
                         THEN [v \in DOMAIN to_expand \cup {to_v} |->
                                 IF v = to_v THEN to ELSE to_expand[v]]
                         ELSE to_expand
                 /\ IF m_ix < 18
                      THEN m_ix' = m_ix + 1 /\ tpc' = "for"
                      ELSE m_ix' = 0 /\ tpc' = "pop"
    /\ UNCHANGED <<cubeVars, seq, tableVars, streamVars, searchVars, table_name, from_v, from>>

NextTransition == PopFront \/ ForMove

SpecTransition == InitTransition /\ [][NextTransition]_vars

\* C14: CoordCube stays consistent with its raw cube: the transition table
\* that CoordCube::apply reads gets built, every transition recorded for the
\* cube `from` is the coordinate of the moved cube, and once the table is
\* built every lookup from the coordinate of `from` is defined or a fixed
\* point that insert leaves out.
C14_CoordCubeConsistent ==
    /\ tpc # "panicked"
    /\ \A k \in 1..18 :
          <<MoveAll[k], from_v>> \in DOMAIN transitions =>
             transitions[<<MoveAll[k], from_v>>] = CoordFn(table_name, apply(from, MoveAll[k]))
    /\ tpc = "done" =>
          \A k \in 1..18 :
             \/ <<MoveAll[k], from_v>> \in DOMAIN transitions
             \/ CoordFn(table_name, apply(from, MoveAll[k])) = from_v

=============================================================================
